---- MODULE Spec2Model ----
(***************************************************************************)
(* Model of src/src/event_calendar/event_calendar.py: the EventCalendar    *)
(* client (one HTTP GET per call, a status gate, JSON rows shaped into a   *)
(* table) and its four lazily iterated range operations.                   *)
(*                                                                         *)
(* Python values are tagged records: None, str, list, dict.  A dict is a   *)
(* function from key strings to values, so a missing key is a key outside  *)
(* its DOMAIN.  A call's outcome is a record [exc, val]: exc = "None" for  *)
(* a normal return of val, otherwise the class of the exception raised.    *)
(* Date strings are records [y, m, d] (d = 0: the "YYYY-MM" form, no day   *)
(* component); timestamps are day ordinals counted from 2024-01-01.        *)
(***************************************************************************)
EXTENDS Integers, Sequences, FiniteSets, TLC

VARIABLES
    retries,    \* Retry(total=retries) of the session's adapter
    build,      \* which requests release is installed (decides the class of a JSON error)
    call,       \* the operation the caller invoked ("none" before any call)
    args,       \* its arguments
    result,     \* outcome of a single (non-range) call
    gen,        \* position of the range generator's frame
    dates,      \* the generator's local date range (timestamps)
    idx,        \* index of the loop's current date in dates
    log,        \* get calls and sleeps performed by the generator, in order
    yielded,    \* datasets handed to the caller, in order
    pulling,    \* the caller is inside next() on the generator
    raised,     \* class of the exception that left the generator ("None" if none)
    pulls       \* next() calls made on a finished generator

vars == <<retries, build, call, args, result, gen, dates, idx, log, yielded,
          pulling, raised, pulls>>

----------------------------------------------------------------------------
(* Bounds of the model *)

MaxRows == 2        \* longest data.rows list the server returns
MaxRetries == 2     \* largest retries argument a client is constructed with
MaxSpan == 4        \* end_date is at most this many days after start_date
MaxMonths == 2      \* end month is at most this many months after start month
MaxPulls == 1       \* next() calls tried on a finished generator

DefaultRetries == 3

----------------------------------------------------------------------------
(* Python values and outcomes *)

PyNone == [t |-> "None"]
PyStr(s) == [t |-> "str", v |-> s]
PyList(s) == [t |-> "list", v |-> s]
PyDict(f) == [t |-> "dict", v |-> f]
EmptyDict == PyDict(<<>>)

IsDict(x) == x.t = "dict"
HasKey(d, k) == k \in DOMAIN d.v

\* dict.get(k, default)
PyGet(d, k, default) == IF HasKey(d, k) THEN d.v[k] ELSE default

Ok(v) == [exc |-> "None", val |-> v]
Msg(text, url, cause) == [text |-> text, url |-> url, cause |-> cause]
Raise(cls, text) == [exc |-> cls, val |-> Msg(text, "", "")]
Raised(r) == r.exc # "None"

----------------------------------------------------------------------------
(* Calendar: datetime.strptime, pd.to_datetime, Timestamp.strftime *)

DateStr(y, m, d) == [y |-> y, m |-> m, d |-> d]

IsLeap(y) == (y % 4 = 0 /\ y % 100 # 0) \/ y % 400 = 0

DaysInMonth(y, m) ==
    IF m = 2 THEN (IF IsLeap(y) THEN 29 ELSE 28)
    ELSE IF m \in {4, 6, 9, 11} THEN 30 ELSE 31

DaysInYear(y) == IF IsLeap(y) THEN 366 ELSE 365

RECURSIVE DaysBeforeYear(_)
DaysBeforeYear(y) == IF y <= 2024 THEN 0 ELSE DaysBeforeYear(y - 1) + DaysInYear(y - 1)

RECURSIVE DaysBeforeMonth(_, _)
DaysBeforeMonth(y, m) == IF m <= 1 THEN 0 ELSE DaysBeforeMonth(y, m - 1) + DaysInMonth(y, m - 1)

ValidDate(s) == /\ s.y >= 2024
                /\ s.m \in 1..12
                /\ s.d \in 1..DaysInMonth(s.y, s.m)

\* the timestamp of a calendar date
Ordinal(y, m, d) == DaysBeforeYear(y) + DaysBeforeMonth(y, m) + (d - 1)

RECURSIVE YearOf(_, _)
YearOf(n, y) == IF n < DaysInYear(y) THEN <<y, n>> ELSE YearOf(n - DaysInYear(y), y + 1)

RECURSIVE MonthOf(_, _, _)
MonthOf(n, y, m) == IF n < DaysInMonth(y, m) THEN <<m, n>> ELSE MonthOf(n - DaysInMonth(y, m), y, m + 1)

\* the calendar date of a timestamp
Civil(n) == LET yr == YearOf(n, 2024)
                mo == MonthOf(yr[2], yr[1], 1)
            IN  DateStr(yr[1], mo[1], mo[2] + 1)

\* Timestamp.weekday(): 0 = Monday ... 6 = Sunday (2024-01-01 is a Monday)
Weekday(n) == n % 7

\* date.strftime("%Y-%m-%d")
strftime_ymd(n) == Civil(n)

\* date.strftime("%Y-%m")
strftime_ym(n) == LET c == Civil(n) IN DateStr(c.y, c.m, 0)

\* datetime.strptime(s, "%Y-%m"): a day component is unconverted data
strptime_ym(s) ==
    IF s.d # 0 \/ s.m \notin 1..12 THEN Raise("ValueError", "unconverted data remains")
    ELSE Ok(Ordinal(s.y, s.m, 1))

NaT == 0 - 1

\* pd.to_datetime(x) of a JSON value
to_datetime(x) ==
    IF x.t = "None" THEN Ok(NaT)
    ELSE IF x.t = "str" /\ ValidDate(x.v) THEN Ok(Ordinal(x.v.y, x.v.m, x.v.d))
    ELSE IF x.t = "str" /\ x.v.d = 0 /\ x.v.m \in 1..12 THEN Ok(Ordinal(x.v.y, x.v.m, 1))
    ELSE Raise("ValueError", "Unknown datetime string format")

IsBusinessDay(n) == Weekday(n) < 5
IsMonthStart(n) == Civil(n).d = 1

\* pd.bdate_range(start, end) on two timestamps: the Mon-Fri days of [start, end]
RECURSIVE bdate_range(_, _)
bdate_range(start, end) ==
    IF start > end THEN <<>>
    ELSE (IF IsBusinessDay(start) THEN <<start>> ELSE <<>>) \o bdate_range(start + 1, end)

\* pd.date_range(start=start, end=end, freq="MS"): the month starts of [start, end]
RECURSIVE date_range_MS(_, _)
date_range_MS(start, end) ==
    IF start > end THEN <<>>
    ELSE (IF IsMonthStart(start) THEN <<start>> ELSE <<>>) \o date_range_MS(start + 1, end)

----------------------------------------------------------------------------
(* The HTTP exchange behind session.get *)

earnings_url == "https://api.nasdaq.com/api/calendar/earnings"
dividends_url == "https://api.nasdaq.com/api/calendar/dividends"
ipo_url == "https://api.nasdaq.com/api/ipo/calendar"
economic_calendar == "https://api.nasdaq.com/api/calendar/economicevents"
splits_url == "https://api.nasdaq.com/api/calendar/splits"

status_forcelist == {500, 502, 503, 504}

\* A server reply to one attempt: a transport failure, or a status code with a
\* body that is JSON (a Python value) or is not (NotJson).
NotJson == [t |-> "text"]
NetError == [net |-> "error", code |-> 0, body |-> NotJson]
Http(code, body) == [net |-> "ok", code |-> code, body |-> body]

\* The server's replies to successive attempts of one GET; the last repeats.
ReplyAt(script, i) == script[IF i < Len(script) THEN i ELSE Len(script)]

\* urllib3 Retry.is_exhausted() after an increment left `total` retries
is_exhausted_late(total) == total < 0 - 1
is_exhausted(total) == total < 0

\* HTTPAdapter.send under Retry(total, status_forcelist): attempt i with
\* `total` retries left.  A transport failure or a forcelisted status spends
\* one retry and is sent again, or ends the exchange when none is left.
RECURSIVE Send(_, _, _)
Send(script, i, total) ==
    LET reply == ReplyAt(script, i) IN
    IF reply.net = "error" THEN
        IF is_exhausted(total - 1)
        THEN [exc |-> "ConnectionError", reply |-> reply, attempts |-> i]
        ELSE Send(script, i + 1, total - 1)
    ELSE IF reply.code \in status_forcelist THEN
        IF is_exhausted(total - 1)
        THEN [exc |-> "RetryError", reply |-> reply, attempts |-> i]
        ELSE Send(script, i + 1, total - 1)
    ELSE [exc |-> "None", reply |-> reply, attempts |-> i]

\* self.session.get(url, params=params, timeout=self.timeout)
session_get(script) == Send(script, 1, retries)

\* response.raise_for_status()
raise_for_status(reply) == IF reply.code >= 400 /\ reply.code < 600 THEN "HTTPError" ELSE "None"

\* The class response.json() raises on a body that is not JSON: since
\* requests 2.27 its own JSONDecodeError (a RequestException and a
\* ValueError), before that the json module's (a ValueError only).
Builds == {"requests>=2.27", "requests<2.27"}
JsonErrorClass == IF build = "requests>=2.27" THEN "requests.JSONDecodeError" ELSE "json.JSONDecodeError"

IsRequestException(cls) ==
    cls \in {"ConnectionError", "RetryError", "HTTPError", "requests.JSONDecodeError"}
IsValueError(cls) == cls \in {"requests.JSONDecodeError", "json.JSONDecodeError"}

\* The try block of _fetch: the class of the exception it raises ("None" if none)
FetchTryExc(script) ==
    LET sent == session_get(script) IN
    IF sent.exc # "None" THEN sent.exc
    ELSE IF raise_for_status(sent.reply) # "None" THEN raise_for_status(sent.reply)
    ELSE IF sent.reply.body.t = "text" THEN JsonErrorClass
    ELSE "None"

\* The except clauses of _fetch, tried in order
handler(cls) ==
    IF IsRequestException(cls) THEN "fetching"
    ELSE IF IsValueError(cls) THEN "decoding"
    ELSE "propagate"

\* EventCalendar._fetch(url, params)
_fetch(url, params, script) ==
    LET cls == FetchTryExc(script) IN
    IF cls = "None" THEN Ok(session_get(script).reply.body)
    ELSE IF handler(cls) = "fetching"
        THEN [exc |-> "EventCalendarError", val |-> Msg("Error fetching data from", url, cls)]
    ELSE IF handler(cls) = "decoding"
        THEN [exc |-> "EventCalendarError", val |-> Msg("Error decoding JSON response from", url, "")]
    ELSE Raise(cls, "")

----------------------------------------------------------------------------
(* The status gate *)

\* bCodeMessage[0]["errorMessage"]
FirstErrorMessage(bCodeMessage) ==
    IF bCodeMessage.t # "list" THEN Raise("TypeError", "not subscriptable")
    ELSE IF Len(bCodeMessage.v) = 0 THEN Raise("IndexError", "list index out of range")
    ELSE IF ~HasKey(bCodeMessage.v[1], "errorMessage") THEN Raise("KeyError", "errorMessage")
    ELSE Ok(bCodeMessage.v[1].v["errorMessage"])

\* the test of _status_verify: bCodeMessage is not None
status_failed(bCodeMessage) == bCodeMessage.t # "None"

\* EventCalendar._status_verify(response)
_status_verify(response) ==
    LET status == PyGet(response, "status", PyNone) IN
    IF ~IsDict(status) THEN Raise("AttributeError", "'NoneType' object has no attribute 'get'")
    ELSE LET bCodeMessage == PyGet(status, "bCodeMessage", PyNone) IN
         IF status_failed(bCodeMessage) THEN
             LET m == FirstErrorMessage(bCodeMessage) IN
             IF Raised(m) THEN m
             ELSE [exc |-> "EventCalendarError", val |-> Msg(m.val.v, "", "")]
         ELSE Ok(response)

----------------------------------------------------------------------------
(* Tables *)

ColumnOrder == <<"date", "symbol", "epsForecast">>

RowKeys(rows) == UNION {DOMAIN rows[i] : i \in 1..Len(rows)}

\* pd.DataFrame(x) of a JSON value: None and [] give a table with no rows and
\* no columns, a list of records one row per record
DataFrame(x) ==
    IF x.t = "list"
    THEN [columns |-> SelectSeq(ColumnOrder, LAMBDA c : c \in RowKeys(x.v)), rows |-> x.v]
    ELSE [columns |-> <<>>, rows |-> <<>>]

\* df.empty: some axis has length 0
df_empty(df) == Len(df.rows) = 0 \/ Len(df.columns) = 0

\* df.insert(0, column, value): a new first column holding value in every row
df_insert0(df, column, value) ==
    IF \E i \in 1..Len(df.columns) : df.columns[i] = column
    THEN Raise("ValueError", "cannot insert, already exists")
    ELSE Ok([columns |-> <<column>> \o df.columns,
             rows |-> [i \in 1..Len(df.rows) |-> (column :> value) @@ df.rows[i]]])

EmptyResult(text) == [exc |-> "EventCalendarError", val |-> Msg(text, "", "")]

\* container["asOf"] followed by container.get("rows", []), container being
\* the value the chain of .get calls arrived at
AsOfThenRows(container) ==
    IF ~IsDict(container) THEN Raise("TypeError", "'NoneType' object is not subscriptable")
    ELSE IF ~HasKey(container, "asOf") THEN Raise("KeyError", "asOf")
    ELSE Ok([asOf |-> container.v["asOf"], rows |-> PyGet(container, "rows", PyList(<<>>))])

\* container.get("rows", [])
RowsOf(container) ==
    IF ~IsDict(container) THEN Raise("AttributeError", "'NoneType' object has no attribute 'get'")
    ELSE Ok(PyGet(container, "rows", PyList(<<>>)))

\* container.get(key, {})
Sub(container, key) ==
    IF ~IsDict(container) THEN Raise("AttributeError", "'NoneType' object has no attribute 'get'")
    ELSE Ok(PyGet(container, key, EmptyDict))

\* the tail shared by the get operations that inject a date column: build the
\* table, refuse an empty one, insert the parsed date as first column
DatedTable(rows, dateValue, text) ==
    LET df == DataFrame(rows) IN
    IF df_empty(df) THEN EmptyResult(text)
    ELSE LET ts == to_datetime(dateValue) IN
         IF Raised(ts) THEN ts ELSE df_insert0(df, "date", ts.val)

\* the tail of the get operations that inject no date column
PlainTable(rows, text) ==
    LET df == DataFrame(rows) IN
    IF df_empty(df) THEN EmptyResult(text) ELSE Ok(df)

----------------------------------------------------------------------------
(* The single-date operations *)

\* _fetch then _status_verify
Verified(url, params, script) ==
    LET fetched == _fetch(url, params, script) IN
    IF Raised(fetched) THEN fetched ELSE _status_verify(fetched.val)

\* get_earnings stamping the requested date instead of data.asOf
get_earnings_requested_date(date, script) ==
    LET response == Verified(earnings_url, date, script) IN
    IF Raised(response) THEN response
    ELSE LET got == AsOfThenRows(PyGet(response.val, "data", EmptyDict)) IN
         IF Raised(got) THEN got
         ELSE DatedTable(got.val.rows, PyStr(date), "No earnings data found.")

\* EventCalendar.get_earnings(date)
get_earnings(date, script) ==
    LET response == Verified(earnings_url, date, script) IN
    IF Raised(response) THEN response
    ELSE LET got == AsOfThenRows(PyGet(response.val, "data", EmptyDict)) IN
         IF Raised(got) THEN got
         ELSE DatedTable(got.val.rows, got.val.asOf, "No earnings data found.")

\* EventCalendar.get_dividends(date)
get_dividends(date, script) ==
    LET response == Verified(dividends_url, date, script) IN
    IF Raised(response) THEN response
    ELSE LET calendar == Sub(PyGet(response.val, "data", EmptyDict), "calendar") IN
         IF Raised(calendar) THEN calendar
         ELSE LET got == AsOfThenRows(calendar.val) IN
              IF Raised(got) THEN got
              ELSE DatedTable(got.val.rows, got.val.asOf, "No dividends data found.")

\* EventCalendar.get_ipo(date)
get_ipo(date, script) ==
    LET response == Verified(ipo_url, date, script) IN
    IF Raised(response) THEN response
    ELSE LET priced == Sub(PyGet(response.val, "data", EmptyDict), "priced") IN
         IF Raised(priced) THEN priced
         ELSE LET rows == RowsOf(priced.val) IN
              IF Raised(rows) THEN rows ELSE PlainTable(rows.val, "No IPO data found.")

\* EventCalendar.get_economic_calendar(date)
get_economic_calendar(date, script) ==
    LET response == Verified(economic_calendar, date, script) IN
    IF Raised(response) THEN response
    ELSE LET rows == RowsOf(PyGet(response.val, "data", EmptyDict)) IN
         IF Raised(rows) THEN rows
         ELSE DatedTable(rows.val, PyStr(date), "No economic events data found.")

\* EventCalendar.get_splits()
get_splits(script) ==
    LET response == Verified(splits_url, PyNone, script) IN
    IF Raised(response) THEN response
    ELSE LET rows == RowsOf(PyGet(response.val, "data", EmptyDict)) IN
         IF Raised(rows) THEN rows ELSE PlainTable(rows.val, "No splits data found.")

----------------------------------------------------------------------------
(* What the server may send *)

Missing == [has |-> FALSE, val |-> PyNone]
Present(v) == [has |-> TRUE, val |-> v]

\* the dict holding k1 and k2 where the options have them
Dict2(k1, o1, k2, o2) ==
    PyDict([k \in {x \in {k1, k2} : (x = k1 /\ o1.has) \/ (x = k2 /\ o2.has)} |->
                IF k = k1 THEN o1.val ELSE o2.val])
Dict1(k, v) == PyDict([x \in {k} |-> v])

Row1 == [symbol |-> "AAPL", epsForecast |-> "1.50"]
Row2 == [symbol |-> "MSFT", epsForecast |-> "2.10"]
RowLists == UNION {[1..n -> {Row1, Row2}] : n \in 0..MaxRows}

Err(m) == Dict1("errorMessage", PyStr(m))
BCodeMessages == {PyNone, PyList(<<>>), PyList(<<Err("m1")>>), PyList(<<Err("m2"), Err("m1")>>)}
StatusOptions ==
    {Missing, Present(PyNone), Present(EmptyDict)}
        \cup {Present(Dict1("bCodeMessage", b)) : b \in BCodeMessages}
StatusOk == Present(Dict1("bCodeMessage", PyNone))

AsOfOptions == {Missing, Present(PyNone), Present(PyStr(DateStr(2025, 4, 11))),
                Present(PyStr(DateStr(2025, 2, 30)))}
RowsOptions == {Missing, Present(PyNone)} \cup {Present(PyList(r)) : r \in RowLists}
Sections == {Dict2("asOf", a, "rows", r) : a \in AsOfOptions, r \in RowsOptions}

\* where an endpoint keeps its rows: in data, data.calendar or data.priced
Locations == {"data", "calendar", "priced"}
DataAt(loc, section) == IF loc = "data" THEN section ELSE Dict1(loc, section)
DataOptions ==
    {Missing, Present(PyNone)}
        \cup {Present(DataAt(loc, sec)) : loc \in Locations, sec \in Sections}

Bodies == {Dict2("status", st, "data", d) : st \in StatusOptions, d \in DataOptions}

\* one-reply scripts: a JSON body, a body that is not JSON, a 404, a dead link
FinalReplies == {Http(200, b) : b \in Bodies} \cup {Http(200, NotJson), Http(404, NotJson), NetError}

\* scripts of replies to the attempts of one GET
SampleBody ==
    Dict2("status", StatusOk,
          "data", Present(Dict2("asOf", Present(PyStr(DateStr(2025, 4, 11))),
                                "rows", Present(PyList(<<Row1>>)))))
ReplyKinds == {NetError, Http(503, NotJson), Http(500, NotJson), Http(404, NotJson),
               Http(200, NotJson), Http(200, SampleBody)}
Scripts == UNION {[1..n -> ReplyKinds] : n \in 1..(MaxRetries + 2)}

RetriesChoices == 0..MaxRetries
DateChoices == {DateStr(2025, 4, 11), DateStr(2025, 4, 14)}

----------------------------------------------------------------------------
(* Single calls: the caller invokes one operation on a constructed client *)

NoResult == [out |-> Ok(PyNone), attempts |-> 0]
NoArgs == [date |-> DateStr(0, 0, 0), script |-> <<>>, response |-> PyNone]

GenIdle ==
    /\ gen = "none" /\ dates = <<>> /\ idx = 0 /\ log = <<>> /\ yielded = <<>>
    /\ pulling = FALSE /\ raised = "None" /\ pulls = 0

Init ==
    /\ retries \in RetriesChoices
    /\ build \in Builds
    /\ call = "none" /\ args = NoArgs /\ result = NoResult
    /\ GenIdle

GenUnchanged == UNCHANGED <<gen, dates, idx, log, yielded, pulling, raised, pulls>>

Returned(name, date, script, out) ==
    /\ call' = name
    /\ args' = [date |-> date, script |-> script, response |-> PyNone]
    /\ result' = [out |-> out, attempts |-> session_get(script).attempts]
    /\ UNCHANGED <<retries, build>>
    /\ GenUnchanged

Fetch ==
    /\ call = "none"
    /\ \E script \in Scripts :
        Returned("_fetch", DateStr(2025, 4, 11), script,
                 _fetch(earnings_url, DateStr(2025, 4, 11), script))

StatusVerify ==
    /\ call = "none"
    /\ \E response \in Bodies :
        /\ call' = "_status_verify"
        /\ args' = [date |-> DateStr(0, 0, 0), script |-> <<>>, response |-> response]
        /\ result' = [out |-> _status_verify(response), attempts |-> 0]
        /\ UNCHANGED <<retries, build>>
        /\ GenUnchanged

GetEarnings ==
    /\ call = "none"
    /\ \E date \in DateChoices, reply \in FinalReplies :
        Returned("get_earnings", date, <<reply>>, get_earnings(date, <<reply>>))

GetDividends ==
    /\ call = "none"
    /\ \E date \in DateChoices, reply \in FinalReplies :
        Returned("get_dividends", date, <<reply>>, get_dividends(date, <<reply>>))

GetIpo ==
    /\ call = "none"
    /\ \E date \in DateChoices, reply \in FinalReplies :
        Returned("get_ipo", DateStr(date.y, date.m, 0), <<reply>>,
                 get_ipo(DateStr(date.y, date.m, 0), <<reply>>))

GetEconomicCalendar ==
    /\ call = "none"
    /\ \E date \in DateChoices, reply \in FinalReplies :
        Returned("get_economic_calendar", date, <<reply>>, get_economic_calendar(date, <<reply>>))

GetSplits ==
    /\ call = "none"
    /\ \E reply \in FinalReplies :
        Returned("get_splits", DateStr(0, 0, 0), <<reply>>, get_splits(<<reply>>))

Next ==
    \/ Fetch
    \/ StatusVerify
    \/ GetEarnings
    \/ GetDividends
    \/ GetIpo
    \/ GetEconomicCalendar
    \/ GetSplits

Spec == Init /\ [][Next]_vars

----------------------------------------------------------------------------
(* Range operations: generator functions the caller drives with next() *)

BusinessRangeOps == {"get_earnings_range", "get_dividends_range", "get_economic_calendar_range"}
RangeOps == BusinessRangeOps \cup {"get_ipo_range"}

LocationOf(op) ==
    IF op = "get_dividends_range" THEN "calendar"
    ELSE IF op = "get_ipo_range" THEN "priced" ELSE "data"

\* the month string k months after month string s
MonthsAfter(s, k) == LET n == s.y * 12 + (s.m - 1) + k IN DateStr(n \div 12, (n % 12) + 1, 0)

RangeStarts == {DateStr(2025, 4, 11), DateStr(2024, 2, 28)}
RangeEnds(start) ==
    {strftime_ymd(Ordinal(start.y, start.m, start.d) + k) : k \in (0 - 1)..MaxSpan}
IpoStarts == {DateStr(2024, 4, 0), DateStr(2024, 11, 0), DateStr(2024, 4, 15)}
IpoEnds(start) ==
    {MonthsAfter(start, k) : k \in (0 - 1)..MaxMonths} \cup {DateStr(2024, 6, 30)}
SleepChoices == {"0.1", "2"}

\* the replies a range step may meet, one script per kind of outcome
StepBody(loc, st, asOf, rows) ==
    Dict2("status", st, "data", Present(DataAt(loc, Dict2("asOf", asOf, "rows", rows))))
StepDay == Present(PyStr(DateStr(2025, 4, 11)))
RangeScripts(loc) ==
    { <<Http(200, StepBody(loc, StatusOk, StepDay, Present(PyList(<<Row1>>))))>>,
      <<Http(200, StepBody(loc, StatusOk, StepDay, Present(PyList(<<>>))))>>,
      <<Http(200, StepBody(loc, Present(Dict1("bCodeMessage", PyList(<<Err("m1")>>))),
                           StepDay, Present(PyNone)))>>,
      <<Http(200, StepBody(loc, StatusOk, Missing, Present(PyList(<<Row2>>))))>>,
      <<Http(200, StepBody(loc, Missing, StepDay, Present(PyList(<<Row1>>))))>>,
      <<Http(200, NotJson)>>,
      <<Http(404, NotJson)>> }

\* business_date_range = pd.bdate_range(start_date, end_date)
BusinessDates(start, end) ==
    LET s == to_datetime(PyStr(start))
        e == to_datetime(PyStr(end))
    IN  IF Raised(s) THEN s ELSE IF Raised(e) THEN e ELSE Ok(bdate_range(s.val, e.val))

\* a month range that stops short of the end month
MonthDatesOpenEnd(start, end) ==
    LET s == strptime_ym(start)
        e == strptime_ym(end)
    IN  IF Raised(s) THEN s ELSE IF Raised(e) THEN e ELSE Ok(date_range_MS(s.val, e.val - 1))

\* strptime both arguments, then month_range = pd.date_range(..., freq="MS")
MonthDates(start, end) ==
    LET s == strptime_ym(start)
        e == strptime_ym(end)
    IN  IF Raised(s) THEN s ELSE IF Raised(e) THEN e ELSE Ok(date_range_MS(s.val, e.val))

RangeDates(op, start, end) ==
    IF op = "get_ipo_range" THEN MonthDates(start, end) ELSE BusinessDates(start, end)

\* date = date.strftime(...) at the head of the loop body
StepDate(op, ts) == IF op = "get_ipo_range" THEN strftime_ym(ts) ELSE strftime_ymd(ts)

\* the single-date call of the loop body
StepCall(op, date, script) ==
    IF op = "get_earnings_range" THEN get_earnings(date, script)
    ELSE IF op = "get_dividends_range" THEN get_dividends(date, script)
    ELSE IF op = "get_ipo_range" THEN get_ipo(date, script)
    ELSE get_economic_calendar(date, script)

\* a handler catching nothing, and one catching every exception
CaughtNothing(out) == FALSE
CaughtAnything(out) == TRUE

\* except EventCalendarError as e
Caught(out) == out.exc = "EventCalendarError"

\* an eager body: the call itself runs up to the first yield
FrameAtCallEager == "start"

\* a generator function's frame after the call: nothing of the body has run
FrameAtCall == "created"

\* a sleep placed inside the except clause is skipped after a yield
ResumePointInsideExcept == "loop"

\* where next() resumes a frame suspended at yield: the statement after the try
ResumePoint == "sleep"

GetEvent(date, out) == [e |-> "get", date |-> date, out |-> out]
SleepEvent(secs) == [e |-> "sleep", secs |-> secs]

InitRange ==
    /\ retries = DefaultRetries
    /\ build \in Builds
    /\ call = "none" /\ args = [start |-> DateStr(0, 0, 0), end |-> DateStr(0, 0, 0), sleep |-> ""]
    /\ result = NoResult
    /\ GenIdle

\* ec.get_X_range(start_date, end_date, sleep)
CallRange ==
    /\ call = "none"
    /\ \E op \in RangeOps, sleep \in SleepChoices :
       \E start \in (IF op = "get_ipo_range" THEN IpoStarts ELSE RangeStarts) :
       \E end \in (IF op = "get_ipo_range" THEN IpoEnds(start) ELSE RangeEnds(start)) :
            /\ call' = op
            /\ args' = [start |-> start, end |-> end, sleep |-> sleep]
            /\ gen' = FrameAtCall
    /\ UNCHANGED <<retries, build, result, dates, idx, log, yielded, pulling, raised, pulls>>

\* next(g) on a frame that has not finished
Pull ==
    /\ gen \in {"created", "yielded"}
    /\ ~pulling
    /\ pulling' = TRUE
    /\ gen' = IF gen = "created" THEN "start" ELSE ResumePoint
    /\ UNCHANGED <<retries, build, call, args, result, dates, idx, log, yielded, raised, pulls>>

\* the statements before the loop
Start ==
    /\ gen = "start"
    /\ \E r \in {RangeDates(call, args.start, args.end)} :
       IF Raised(r)
       THEN /\ gen' = "raised" /\ raised' = r.exc /\ pulling' = FALSE
            /\ UNCHANGED <<dates, idx>>
       ELSE /\ gen' = "loop" /\ dates' = r.val /\ idx' = 0
            /\ UNCHANGED <<raised, pulling>>
    /\ UNCHANGED <<retries, build, call, args, result, log, yielded, pulls>>

\* one pass of the loop body up to the yield, the except clause or the raise
Step ==
    /\ gen = "loop"
    /\ idx < Len(dates)
    /\ \E script \in RangeScripts(LocationOf(call)) :
       \E date \in {StepDate(call, dates[idx + 1])} :
       \E out \in {StepCall(call, date, script)} :
            /\ idx' = idx + 1
            /\ log' = Append(log, GetEvent(date, out))
            /\ IF ~Raised(out)
               THEN /\ yielded' = Append(yielded, out.val)
                    /\ gen' = "yielded" /\ pulling' = FALSE
                    /\ UNCHANGED raised
               ELSE IF Caught(out)
               THEN /\ gen' = "sleep"
                    /\ UNCHANGED <<yielded, pulling, raised>>
               ELSE /\ gen' = "raised" /\ raised' = out.exc /\ pulling' = FALSE
                    /\ UNCHANGED yielded
    /\ UNCHANGED <<retries, build, call, args, result, dates, pulls>>

\* time.sleep(sleep)
Sleep ==
    /\ gen = "sleep"
    /\ log' = Append(log, SleepEvent(args.sleep))
    /\ gen' = "loop"
    /\ UNCHANGED <<retries, build, call, args, result, dates, idx, yielded, pulling, raised, pulls>>

\* the loop's iterator is exhausted: the frame returns, next() raises StopIteration
Exhaust ==
    /\ gen = "loop"
    /\ idx >= Len(dates)
    /\ gen' = "done" /\ pulling' = FALSE
    /\ UNCHANGED <<retries, build, call, args, result, dates, idx, log, yielded, raised, pulls>>

\* next(g) on a finished frame raises StopIteration and runs nothing
PullFinished ==
    /\ gen \in {"done", "raised", "closed"}
    /\ ~pulling
    /\ pulls < MaxPulls
    /\ pulls' = pulls + 1
    /\ UNCHANGED <<retries, build, call, args, result, gen, dates, idx, log, yielded, pulling, raised>>

\* the caller abandons the generator: GeneratorExit at the suspension point
Close ==
    /\ gen \in {"created", "yielded"}
    /\ ~pulling
    /\ gen' = "closed"
    /\ UNCHANGED <<retries, build, call, args, result, dates, idx, log, yielded, pulling, raised, pulls>>

NextRange ==
    \/ CallRange
    \/ Pull
    \/ Start
    \/ Step
    \/ Sleep
    \/ Exhaust
    \/ PullFinished
    \/ Close

SpecRange == InitRange /\ [][NextRange]_vars

----------------------------------------------------------------------------
(* Properties of the single calls, checked under Spec *)

GetOps == {"get_earnings", "get_dividends", "get_ipo", "get_economic_calendar", "get_splits"}

\* the reply the call's GET ended on, and its JSON body
FinalReply == ReplyAt(args.script, result.attempts)
GotJson == Len(args.script) > 0 /\ FinalReply.net = "ok"
              /\ FinalReply.code = 200 /\ FinalReply.body.t = "dict"
Body == FinalReply.body

IsError(out, text) == out.exc = "EventCalendarError" /\ out.val.text = text

\* response.status.bCodeMessage where status is an object; None when the key is absent
StatusIsObject(body) == HasKey(body, "status") /\ IsDict(body.v["status"])
BCodeMessageOf(body) == PyGet(body.v["status"], "bCodeMessage", PyNone)
NonEmptyList(x) == x.t = "list" /\ Len(x.v) > 0
StatusSuccess(body) == StatusIsObject(body) /\ BCodeMessageOf(body).t = "None"
StatusNull(body) == StatusSuccess(body) /\ HasKey(body.v["status"], "bCodeMessage")

\* C2: _status_verify raises the API error carrying bCodeMessage[0].errorMessage
\* exactly when status.bCodeMessage is present and non-empty; when it is null,
\* absent or an empty list it raises nothing and returns the response it was given.
C2_StatusGate ==
    (call = "_status_verify" /\ StatusIsObject(args.response)) =>
        IF NonEmptyList(BCodeMessageOf(args.response))
        THEN IsError(result.out, BCodeMessageOf(args.response).v[1].v["errorMessage"].v)
        ELSE result.out.exc = "None" /\ result.out.val = args.response

\* the section of the body where the endpoint of the call keeps its rows
HasSection(op, body) ==
    /\ HasKey(body, "data") /\ IsDict(body.v["data"])
    /\ op = "get_dividends" =>
         HasKey(body.v["data"], "calendar") /\ IsDict(body.v["data"].v["calendar"])
    /\ op = "get_ipo" =>
         HasKey(body.v["data"], "priced") /\ IsDict(body.v["data"].v["priced"])
SectionOf(op, body) ==
    IF op = "get_dividends" THEN body.v["data"].v["calendar"]
    ELSE IF op = "get_ipo" THEN body.v["data"].v["priced"]
    ELSE body.v["data"]
RowsEmpty(op, body) ==
    /\ HasSection(op, body)
    /\ HasKey(SectionOf(op, body), "rows")
    /\ SectionOf(op, body).v["rows"] = PyList(<<>>)

EmptyText(op) ==
    IF op = "get_earnings" THEN "No earnings data found."
    ELSE IF op = "get_dividends" THEN "No dividends data found."
    ELSE IF op = "get_ipo" THEN "No IPO data found."
    ELSE IF op = "get_economic_calendar" THEN "No economic events data found."
    ELSE "No splits data found."

\* C3: for every endpoint operation, a response with a success status and an
\* empty row list at the endpoint's row location ends in the empty-result
\* EventCalendarError, whatever else the data payload holds or lacks.
C3_EmptyRowsAlwaysEmptyResult ==
    (call \in GetOps /\ GotJson /\ StatusNull(Body) /\ RowsEmpty(call, Body)) =>
        IsError(result.out, EmptyText(call))

\* the replies of the script up to attempt k are all forcelisted statuses
Transient(reply) == reply.net = "ok" /\ reply.code \in {500, 502, 503, 504}
AllTransient(script, k) == \A i \in 1..k : Transient(ReplyAt(script, i))
JsonReply(reply) == reply.net = "ok" /\ reply.code = 200 /\ reply.body.t = "dict"

\* C6: with retries = N, at most N consecutive transient responses followed by a
\* 200 with a JSON body make _fetch return that body; more than N consecutive
\* transient responses make it fail with the request error naming the URL; and one
\* _fetch never makes more than N + 1 attempts.
C6_RetryPolicy ==
    call = "_fetch" =>
        /\ \A k \in 0..retries :
             (AllTransient(args.script, k) /\ JsonReply(ReplyAt(args.script, k + 1))) =>
                 /\ result.out.exc = "None"
                 /\ result.out.val = ReplyAt(args.script, k + 1).body
                 /\ result.attempts = k + 1
        /\ AllTransient(args.script, retries + 1) =>
             /\ IsError(result.out, "Error fetching data from")
             /\ result.out.val.url = earnings_url
        /\ result.attempts <= retries + 1

C6_Witness ==
    /\ call = "_fetch" /\ retries = 2
    /\ AllTransient(args.script, 2) /\ JsonReply(ReplyAt(args.script, 3))
    /\ result.attempts = 3 /\ result.out.exc = "None"

\* C7: a 2xx response whose body is not JSON makes _fetch fail with the decode
\* error, and a transport failure or a non-2xx status with the request error;
\* the two outcomes are never confused.
C7_DecodeErrorDistinct ==
    (call = "_fetch" /\ result.out.exc # "None") =>
        IF FinalReply.net = "ok" /\ FinalReply.code = 200
        THEN IsError(result.out, "Error decoding JSON response from")
        ELSE IsError(result.out, "Error fetching data from")

\* C9: on a success status, a server-reported data.asOf date and a non-empty
\* data.rows, get_earnings returns a table with one row per record of data.rows,
\* in the server's order, whose first column "date" holds the asOf date in every row.
C9_Precondition ==
    /\ call = "get_earnings" /\ GotJson /\ StatusSuccess(Body)
    /\ HasSection(call, Body)
    /\ HasKey(Body.v["data"], "asOf") /\ HasKey(Body.v["data"], "rows")
    /\ Body.v["data"].v["asOf"].t = "str" /\ ValidDate(Body.v["data"].v["asOf"].v)
    /\ NonEmptyList(Body.v["data"].v["rows"])

C9_EarningsTable ==
    C9_Precondition =>
        LET asOf == Body.v["data"].v["asOf"].v
            rows == Body.v["data"].v["rows"].v
            df == result.out.val
        IN  /\ result.out.exc = "None"
            /\ Len(df.rows) = Len(rows)
            /\ df.columns[1] = "date"
            /\ \A i \in 1..Len(rows) :
                 /\ df.rows[i]["date"] = Ordinal(asOf.y, asOf.m, asOf.d)
                 /\ \A k \in DOMAIN rows[i] : df.rows[i][k] = rows[i][k]
                 /\ DOMAIN df.rows[i] = DOMAIN rows[i] \cup {"date"}

C9_Witness ==
    /\ C9_Precondition
    /\ Body.v["data"].v["asOf"].v # args.date
    /\ Body.v["data"].v["rows"].v = <<Row2, Row1>>
    /\ result.out.exc = "None"
    /\ result.out.val.rows[1]["symbol"] = "MSFT"

----------------------------------------------------------------------------
(* Properties of the range operations, checked under SpecRange *)

Gets == SelectSeq(log, LAMBDA ev : ev.e = "get")
Successes == SelectSeq(Gets, LAMBDA ev : ~Raised(ev.out))
Failed(ev) == ev.e = "get" /\ Raised(ev.out)
Skipped(ev) == Failed(ev) /\ ev.out.exc = "EventCalendarError"
Fatal(ev) == Failed(ev) /\ ev.out.exc # "EventCalendarError"

DateKey(s) == s.y * 10000 + s.m * 100 + s.d
Chronological(evs) == \A i \in 1..(Len(evs) - 1) : DateKey(evs[i].date) < DateKey(evs[i + 1].date)

\* the Monday-to-Friday days from start to end, both included
DayNumber(s) == Ordinal(s.y, s.m, s.d)
BusinessDays(start, end) ==
    {n \in DayNumber(start)..DayNumber(end) : Weekday(n) \notin {5, 6}}

\* the iteration has run to its end: StopIteration, or an exception out of a step
Iterated == gen = "done" \/ (gen = "raised" /\ Len(log) > 0)

\* C1: a range operation iterated to exhaustion, every failing step failing with
\* an EventCalendarError, has yielded exactly the results of its successful steps,
\* in the chronological order of the enumerated dates, failed steps omitted; the
\* number of yielded datasets is at most the number of enumerated steps (the
\* business days of [start, end]) and equals it iff no step failed.
C1_YieldsSuccessesInOrder ==
    /\ Len(yielded) = Len(Successes)
    /\ \A i \in 1..Len(yielded) : yielded[i] = Successes[i].out.val
    /\ (Iterated /\ \A i \in 1..Len(log) : ~Fatal(log[i])) =>
          /\ gen = "done"
          /\ Len(Gets) = Len(dates)
          /\ Chronological(Gets)
          /\ call \in BusinessRangeOps =>
                Len(dates) = Cardinality(BusinessDays(args.start, args.end))
          /\ Len(yielded) <= Len(dates)
          /\ Len(yielded) = Len(dates) <=> (\A i \in 1..Len(log) : ~Failed(log[i]))

C1_Witness ==
    /\ gen = "done" /\ Len(Gets) = 3 /\ Len(yielded) = 2
    /\ Skipped(Gets[2])

\* C4: a step that fails with an EventCalendarError (request, decode, API status
\* or empty result) never ends the iteration: it is skipped and the loop goes on
\* to the sleep and the next date.  A step that fails with any other error is not
\* caught: the error reaches the caller and ends the iteration, so nothing is
\* requested or yielded after it.
C4_SkipOrAbort ==
    \A i \in 1..Len(log) :
        /\ Skipped(log[i]) =>
              IF i = Len(log) THEN gen = "sleep" /\ pulling /\ raised = "None"
              ELSE log[i + 1].e = "sleep"
        /\ Fatal(log[i]) =>
              /\ i = Len(log)
              /\ gen = "raised" /\ raised = log[i].out.exc /\ ~pulling
              /\ Len(yielded) = Len(Successes)

ErrorTexts == {Gets[i].out.val.text : i \in {j \in 1..Len(Gets) : Skipped(Gets[j])}}

C4_Witness ==
    /\ Len(Gets) = 3
    /\ Skipped(Gets[1]) /\ Skipped(Gets[2]) /\ Fatal(Gets[3])
    /\ "Error fetching data from" \in ErrorTexts
    /\ "Error decoding JSON response from" \in ErrorTexts
    /\ gen = "raised"

\* C5: a range operation is lazy and cancellable by abandonment.  The call itself
\* issues no request; whenever the caller holds an element, the requests issued so
\* far are exactly those for the dates up to the one that produced it; requests are
\* issued only while the caller is pulling; a finished sequence yields nothing
\* more and issues no request when pulled again.
C5_AtRest ==
    /\ gen = "created" => (log = <<>> /\ dates = <<>>)
    /\ gen = "yielded" =>
          /\ ~pulling
          /\ Len(Gets) = idx
          /\ log[Len(log)] = GetEvent(StepDate(call, dates[idx]), Ok(yielded[Len(yielded)]))
    /\ gen \in {"start", "loop", "sleep"} => pulling

C5_Moves ==
    /\ ~pulling => log' = log /\ yielded' = yielded
    /\ gen \in {"done", "raised", "closed"} =>
          gen' = gen /\ log' = log /\ yielded' = yielded /\ ~pulling'

C5_LazyAndCancellable == [](C5_AtRest) /\ [][C5_Moves]_vars

C5_Witness ==
    /\ gen = "closed" /\ pulls = 1
    /\ Len(dates) = 3 /\ Len(Gets) = 2 /\ Failed(Gets[1]) /\ Len(yielded) = 1

\* the months from start's month to end's month, both included
MonthIndex(s) == s.y * 12 + (s.m - 1)
MonthsBetween(start, end) == MonthIndex(end) - MonthIndex(start)
MonthSeq(start, end) ==
    [i \in 1..(MonthsBetween(start, end) + 1) |-> MonthsAfter(DateStr(start.y, start.m, 0), i - 1)]
GetDates == [i \in 1..Len(Gets) |-> Gets[i].date]
IsPrefix(a, b) == Len(a) <= Len(b) /\ \A i \in 1..Len(a) : a[i] = b[i]

\* the iteration ended without a step failing outside the taxonomy
EndedWithoutFatalStep ==
    (gen = "done" \/ gen = "raised") /\ \A i \in 1..Len(log) : ~Fatal(log[i])

\* C8 as stated: get_ipo_range(start, end) with start <= end issues exactly one
\* get_ipo request per calendar month from start's month to end's month, in
\* increasing order, whichever steps fail and whatever the day-of-month in
\* start or end.
C8_OneRequestPerMonth ==
    (call = "get_ipo_range" /\ MonthsBetween(args.start, args.end) >= 0
        /\ EndedWithoutFatalStep) =>
        GetDates = MonthSeq(args.start, args.end)

\* C8 amended: with start and end in the "YYYY-MM" form and start <= end, the
\* requests issued are always a prefix of the months from start to end, and a full
\* iteration issues exactly one per month, in increasing order, whichever steps
\* fail with an EventCalendarError; a start or end carrying a day-of-month is
\* refused with ValueError at the first pull and no request is issued.
C8_OneRequestPerMonthOfYearMonthArgs ==
    call = "get_ipo_range" =>
        IF args.start.d = 0 /\ args.end.d = 0
        THEN MonthsBetween(args.start, args.end) >= 0 =>
                /\ IsPrefix(GetDates, MonthSeq(args.start, args.end))
                /\ \A i \in 1..Len(GetDates) : GetDates[i].d = 0
                /\ EndedWithoutFatalStep =>
                      /\ gen = "done"
                      /\ GetDates = MonthSeq(args.start, args.end)
                      /\ Len(Gets) = MonthsBetween(args.start, args.end) + 1
        ELSE /\ log = <<>>
             /\ gen \in {"created", "start", "closed", "raised"}
             /\ gen = "raised" => raised = "ValueError"

C8_Witness ==
    /\ call = "get_ipo_range" /\ gen = "done"
    /\ args.start = DateStr(2024, 11, 0) /\ args.end = DateStr(2025, 1, 0)
    /\ GetDates = <<DateStr(2024, 11, 0), DateStr(2024, 12, 0), DateStr(2025, 1, 0)>>
    /\ Skipped(Gets[2])

\* C10: in a full iteration of a business-day range operation every Monday-to-Friday
\* day of [start, end], both ends included, is attempted by exactly one get call,
\* and every get call is followed by exactly one sleep of the sleep argument before
\* the next get call, whether it succeeded or failed.
C10_EveryBusinessDayOnceThenSleep ==
    /\ \A i \in 1..Len(log) :
          /\ log[i].e = "get" => (i < Len(log) => log[i + 1] = SleepEvent(args.sleep))
          /\ log[i].e = "sleep" => (i > 1 /\ log[i - 1].e = "get")
    /\ (call \in BusinessRangeOps /\ gen = "done") =>
          /\ {DayNumber(Gets[i].date) : i \in 1..Len(Gets)} = BusinessDays(args.start, args.end)
          /\ Chronological(Gets)
          /\ Len(log) = 2 * Len(Gets)

C10_Witness ==
    /\ call = "get_earnings_range" /\ gen = "done"
    /\ args.start = DateStr(2025, 4, 11) /\ args.end = DateStr(2025, 4, 15)
    /\ GetDates = <<DateStr(2025, 4, 11), DateStr(2025, 4, 14), DateStr(2025, 4, 15)>>
    /\ ~Failed(Gets[1]) /\ Failed(Gets[2]) /\ ~Failed(Gets[3])

====
